---- MODULE Spec2Model ----
(***************************************************************************)
(* A model of the scoring engine of src/app.py: the trade tiers            *)
(* (apply_replacement_level), the weight learner (get_dynamic_weights),    *)
(* the score normaliser (calculate_nexxt_score), the play aggregator and   *)
(* its cache (get_predictive_index), the loader (load_nfl_data), the week   *)
(* detector (get_current_week) and the trade audit.                        *)
(*                                                                         *)
(* Numbers.  The program computes in floating point.  The model computes   *)
(* exactly, in integers: a percentile is a numerator over 2n, a weight     *)
(* vector is a record of integer numerators over one common denominator,   *)
(* fantasy points are counted in hundredths of a point.  The one           *)
(* irrational quantity, the Pearson correlation, is rounded towards zero   *)
(* to 1/ClipDen, the resolution of the program's own clip floor of 0.01.   *)
(* A float NaN is the value NaN, Python's None is the value None.          *)
(***************************************************************************)
EXTENDS Integers, Sequences, FiniteSets, TLC

VARIABLES
    group,              \* the position group the population is drawn for
    added,              \* the records added to the initial roster, as indices
    all_player_stats,   \* the population: a sequence of PlayerStatRecords
    call,               \* the last scoring-engine call and what it returned
    nexxt_score,        \* the score handed to apply_replacement_level
    tier,               \* what apply_replacement_level returned for it
    pbp,                \* the play feed of the season: a sequence of PlayEvents
    fed,                \* the plays of the feed, as indices into PlayChoices
    current_week,       \* what get_current_week() answers
    index,              \* what get_predictive_index returned
    cache,              \* st.cache_data's store for get_predictive_index
    give_details,       \* the trade's give side: the players' scores
    get_details,        \* the trade's get side: the players' scores
    audit,              \* what the trade audit computed
    upstream,           \* what the data provider holds, per season
    loaded,             \* what load_nfl_data returned
    peer_vals,          \* the peer values a percentile is taken against
    ranked,             \* the percentiles taken, by value
    runs,               \* the cutoff and result of every get_predictive_index call
    nfl_state,          \* what the platform's state endpoint answers
    today,              \* datetime.now(), in whole days since NFL_SEASON_START
    week_number         \* what get_current_week returned

scoreVars == <<group, added, all_player_stats, call>>
tierVars == <<nexxt_score, tier>>
indexVars == <<pbp, fed, current_week, index, cache>>
tradeVars == <<give_details, get_details, audit>>
loadVars == <<upstream, loaded>>
pctVars == <<peer_vals, ranked>>
runVars == <<runs>>
weekVars == <<nfl_state, today, week_number>>
vars == <<scoreVars, tierVars, indexVars, tradeVars, loadVars, pctVars, runVars, weekVars>>

\* ------------------------------------------------------------------------
\* Values
\* ------------------------------------------------------------------------

\* Python's None (an unknown advanced metric) and the float NaN: two
\* integers outside the range of every number the model computes.
None == -777777
NaN == -999999

IsNaN(x) == x = NaN

\* dict.get(key, default)
Get(p, key, default) == IF key \in DOMAIN p THEN p[key] ELSE default

RECURSIVE SumSeq(_)
SumSeq(s) == IF s = <<>> THEN 0 ELSE Head(s) + SumSeq(Tail(s))

Map(s, Op(_)) == [i \in 1..Len(s) |-> Op(s[i])]

Positions == {"QB", "RB", "WR", "TE"}

\* The parts of the state a specification does not use stay at rest.
NoTier == [called |-> FALSE, multiplier |-> 0, label |-> ""]

TierIdle == nexxt_score = 0 /\ tier = NoTier

\* get_predictive_index's "return {}, {}, None", and no call made yet.
EmptyIndex == [stats |-> <<>>, def_stats |-> <<>>, actual_season |-> None]
NoIndex == [called |-> FALSE, cutoff |-> 0, value |-> EmptyIndex]

IndexIdle ==
    /\ pbp = <<>>
    /\ fed = <<>>
    /\ current_week = 1
    /\ index = NoIndex
    /\ cache = <<>>

\* No audit made yet.
NoAudit == [called |-> FALSE, give_adjusted |-> 0, get_adjusted |-> 0, value_diff |-> 0]

TradeIdle == give_details = <<>> /\ get_details = <<>> /\ audit = NoAudit

\* load_nfl_data's "return None, None, None, None, None, None", and no call
\* made yet.
NothingLoaded == [pbp |-> None, ngs_pass |-> None, ngs_rush |-> None,
                  ngs_rec |-> None, ids |-> None, actual_season |-> None]
NoLoad == [called |-> FALSE, season |-> None, tried |-> <<>>, value |-> NothingLoaded]

LoadIdle == upstream = <<>> /\ loaded = NoLoad

PctIdle == peer_vals = <<>> /\ ranked = <<>>

RunIdle == runs = {}

\* No answer of the state endpoint, and no call of get_current_week yet.
NoState == [ok |-> FALSE, week |-> None]
NoWeek == [called |-> FALSE, value |-> None]

WeekIdle == nfl_state = NoState /\ today = 0 /\ week_number = NoWeek

\* ------------------------------------------------------------------------
\* get_dynamic_weights
\* ------------------------------------------------------------------------

\* The resolution of a correlation: the clip floor is 0.01 = 1/ClipDen.
ClipDen == 100

\* Fewer qualifying players than this: the static vector.
MinQualifying == 10

\* A qualifying player has at least this many games.
MinGames == 3

\* The candidate metrics of a position, 'fppg' first.
Metrics(position) ==
    CASE position = "QB" -> <<"fppg", "epa_per_play", "pass_attempts", "cpoe">>
      [] position = "RB" -> <<"fppg", "ppr_usage_per_game", "ryoe",
                              "rz_opps_per_game", "targets_per_game">>
      [] OTHER           -> <<"fppg", "wopr", "targets_per_game", "rz_opps_per_game">>

\* A WeightVector: weight of metric m = num[m] / den.
\* The hand-authored static vectors.
Fallback(position) ==
    CASE position = "QB" ->
            [den |-> 10, num |-> [epa_per_play |-> 4, pass_attempts |-> 3, cpoe |-> 3]]
      [] position = "RB" ->
            [den |-> 10, num |-> [ppr_usage_per_game |-> 4, ryoe |-> 3,
                                  rz_opps_per_game |-> 2, targets_per_game |-> 1]]
      [] OTHER ->
            [den |-> 10, num |-> [wopr |-> 5, targets_per_game |-> 3,
                                  rz_opps_per_game |-> 2]]

\* What get_dynamic_weights returns for a position it does not know.
NoWeights == [den |-> 0, num |-> <<>>]

\* (a learner that counts every record with a game)
QualifyingAnyGames(stats, position) ==
    SelectSeq(stats, LAMBDA p : Get(p, "position", None) = position
                                /\ Get(p, "games_played", 0) >= 1)

\* The records the learner reads: the position's, with MinGames games or more.
Qualifying(stats, position) ==
    SelectSeq(stats, LAMBDA p : Get(p, "position", None) = position
                                /\ Get(p, "games_played", 0) >= MinGames)

\* df[available_metrics].fillna(0): an absent or None cell becomes 0.
Column(position_data, m) ==
    Map(position_data, LAMBDA p : IF Get(p, m, None) = None THEN 0 ELSE p[m])

\* The largest k in 0..ClipDen with k*k <= q.
Isqrt(q) ==
    CHOOSE k \in 0..ClipDen :
        /\ k * k <= q
        /\ (k = ClipDen \/ (k + 1) * (k + 1) > q)

\* n times the sample covariance sum: n*Sxy - Sx*Sy.
Cov(xs, ys) ==
    Len(xs) * SumSeq([i \in 1..Len(xs) |-> xs[i] * ys[i]]) - SumSeq(xs) * SumSeq(ys)

\* df.corr(): Pearson's r in units of 1/ClipDen, rounded towards zero; NaN
\* when either column is constant (pandas divides 0 by 0).
Corr(xs, ys) ==
    LET vx == Cov(xs, xs)
        vy == Cov(ys, ys)
        c  == Cov(xs, ys)
    IN  IF vx = 0 \/ vy = 0 THEN NaN
        ELSE LET k == Isqrt((c * c * ClipDen * ClipDen) \div (vx * vy))
             IN  IF c < 0 THEN 0 - k ELSE k

\* corr.clip(lower=0.01): NaN stays NaN.
Clip(r) == IF IsNaN(r) THEN NaN ELSE IF r < 1 THEN 1 ELSE r

\* pandas' sum of a Series given as a function over its keys: NaN skipped.
RECURSIVE SetNanSum(_, _)
SetNanSum(f, S) ==
    IF S = {} THEN 0
    ELSE LET k == CHOOSE x \in S : TRUE
         IN  (IF IsNaN(f[k]) THEN 0 ELSE f[k]) + SetNanSum(f, S \ {k})

\* The floor on one usage metric (targets_per_game for RB, wopr for WR/TE):
\* a weight under 0.2 becomes 0.35 = 7/20 and the others are scaled by
\* 0.65 / other_sum = (13/20) / other_sum.  Python's sum of the others is
\* NaN when one of them is; "NaN > 0" is false and nothing is scaled.
EnforceFloor(w, key) ==
    IF key \notin DOMAIN w.num THEN w
    ELSE IF IsNaN(w.num[key]) \/ ~(5 * w.num[key] < w.den) THEN w
    ELSE LET others == DOMAIN w.num \ {key}
             hasNaN == \E k \in others : IsNaN(w.num[k])
             other  == SetNanSum(w.num, others)
         IN  IF hasNaN \/ ~(other > 0)
             THEN [den |-> 20 * w.den,
                   num |-> [k \in DOMAIN w.num |->
                              IF k = key THEN 7 * w.den
                              ELSE IF IsNaN(w.num[k]) THEN NaN
                              ELSE 20 * w.num[k]]]
             ELSE [den |-> 20 * other,
                   num |-> [k \in DOMAIN w.num |->
                              IF k = key THEN 7 * other ELSE 13 * w.num[k]]]

Range(s) == {s[i] : i \in 1..Len(s)}

get_dynamic_weights(stats, position) ==
    IF position \notin Positions THEN NoWeights
    ELSE
    LET position_data == Qualifying(stats, position)
        fallback == Fallback(position)
    IN  IF Len(position_data) < MinQualifying THEN fallback
        ELSE
        LET available_metrics ==
                SelectSeq(Metrics(position),
                          LAMBDA m : \E i \in 1..Len(position_data) :
                                        m \in DOMAIN position_data[i])
        IN  IF "fppg" \notin Range(available_metrics) \/ Len(available_metrics) < 2
            THEN fallback
            ELSE
            LET fppg == Column(position_data, "fppg")
            IN  IF Cov(fppg, fppg) = 0 THEN fallback      \* std() == 0
                ELSE
                LET keys == Range(available_metrics) \ {"fppg"}
                    corr == [m \in keys |-> Clip(Corr(Column(position_data, m), fppg))]
                    total == SetNanSum(corr, keys)
                IN  IF total = 0 THEN fallback
                    ELSE
                    LET weights == [den |-> total, num |-> corr]
                    IN  IF position = "RB"
                        THEN EnforceFloor(weights, "targets_per_game")
                        ELSE IF position \in {"WR", "TE"}
                        THEN EnforceFloor(weights, "wopr")
                        ELSE weights

\* ------------------------------------------------------------------------
\* calculate_nexxt_score
\* ------------------------------------------------------------------------

\* The advanced metrics whose None is read as 0.
OptionalMetrics == {"cpoe", "ryoe", "avg_cushion"}

\* (kind='weak': the count of values not above val, over 2n)
percentileofscore_weak(vals, val) ==
    2 * Cardinality({i \in 1..Len(vals) : vals[i] <= val})

\* (the rank counted from the top: the count of values not below val)
percentileofscore_descending(vals, val) ==
    2 * Cardinality({i \in 1..Len(vals) : vals[i] >= val})

\* scipy's percentileofscore(vals, val, kind='rank'), as the numerator of a
\* fraction over 2n: (left + right + (1 if right > left else 0)) * 50 / n
\* percent, left the count of values below val and right of those not above.
percentileofscore(vals, val) ==
    LET left  == Cardinality({i \in 1..Len(vals) : vals[i] < val})
        right == Cardinality({i \in 1..Len(vals) : vals[i] <= val})
    IN  left + right + (IF right > left THEN 1 ELSE 0)

\* "... / 100 if len(vals) > 1 else 0.5", over 2n.
Percentile(vals, val) ==
    IF Len(vals) > 1 THEN percentileofscore(vals, val) ELSE Len(vals)

\* The value of a metric as the ranking reads it.
MetricValue(p, metric) ==
    LET v == Get(p, metric, 0)
    IN  IF metric \in OptionalMetrics /\ v = None THEN 0 ELSE v

Returned(v) == [raised |-> FALSE, value |-> v]
Raised == [raised |-> TRUE, value |-> 0]

Min(a, b) == IF a < b THEN a ELSE b
Max(a, b) == IF a > b THEN a ELSE b

\* (the stat score with the peers of unknown value left out of a metric's
\* ranking)
RECURSIVE StatScoreKnownPeers(_, _, _, _)
StatScoreKnownPeers(player_data, position_peers, w, keys) ==
    IF keys = {} THEN 0
    ELSE LET m == CHOOSE x \in keys : TRUE
             rest == StatScoreKnownPeers(player_data, position_peers, w, keys \ {m})
             known == SelectSeq(position_peers, LAMBDA p : Get(p, m, None) # None)
             pct == IF known = <<>> THEN Len(position_peers)
                    ELSE (Percentile(Map(known, LAMBDA p : MetricValue(p, m)),
                                     MetricValue(player_data, m))
                          * Len(position_peers)) \div Len(known)
         IN  IF IsNaN(w.num[m]) \/ IsNaN(rest) THEN NaN ELSE pct * w.num[m] + rest

\* sum(metrics[m] * dynamic_weights[m]) times 2n * den; NaN with a NaN weight.
RECURSIVE StatScore(_, _, _, _)
StatScore(player_data, position_peers, w, keys) ==
    IF keys = {} THEN 0
    ELSE LET m == CHOOSE x \in keys : TRUE
             rest == StatScore(player_data, position_peers, w, keys \ {m})
             pct == Percentile(Map(position_peers, LAMBDA p : MetricValue(p, m)),
                               MetricValue(player_data, m))
         IN  IF IsNaN(w.num[m]) \/ IsNaN(rest) THEN NaN ELSE pct * w.num[m] + rest

\* (the peers taken from every position)
PositionPeersAnyPosition(stats, pos) ==
    SelectSeq(stats, LAMBDA p : Get(p, "games_played", 0) >= 1)

\* The position's peers: its records with a game or more.
PositionPeers(stats, pos) ==
    SelectSeq(stats, LAMBDA p : Get(p, "position", None) = pos
                                /\ Get(p, "games_played", 0) >= 1)

\* A player with fewer games than this is scored with the penalty 0.91.
PenaltyGames == 3

\* raw_score = (fppg_percentile * 0.5 + stat_score * 0.5) * 100 is
\* 25 * X / (n * den) with X = fp * den + stat; the penalty is 91/100 or
\* 100/100; int() of a NaN raises ValueError.
calculate_nexxt_score(player_data, pos, stats) ==
    IF DOMAIN player_data = {} THEN Returned(50)
    ELSE
    LET games == Get(player_data, "games_played", 0)
        sample_size_penalty == IF games < PenaltyGames THEN 91 ELSE 100
        position_peers == PositionPeers(stats, pos)
    IN  IF position_peers = <<>> THEN Returned(50)
        ELSE
        LET dynamic_weights == get_dynamic_weights(stats, pos)
        IN  IF dynamic_weights = NoWeights THEN Raised      \* None.keys()
            ELSE
            LET n == Len(position_peers)
                fp == Percentile(Map(position_peers, LAMBDA p : Get(p, "fppg", 0)),
                                 Get(player_data, "fppg", 0))
                stat == StatScore(player_data, position_peers, dynamic_weights,
                                  DOMAIN dynamic_weights.num)
            IN  IF IsNaN(stat) THEN Raised
                ELSE
                LET X == fp * dynamic_weights.den + stat
                    raw_score == (25 * X * sample_size_penalty)
                                     \div (n * dynamic_weights.den * 100)
                IN  Returned(Max(10, Min(99, raw_score)))

\* ------------------------------------------------------------------------
\* The populations the scoring engine is run on
\* ------------------------------------------------------------------------

\* The records get_predictive_index builds, with the fields the scoring
\* engine reads.  Metric values are small integers in an arbitrary unit:
\* ranking and correlation depend on their order and spread only.
QBRecord(gp, fppg, epa, att, cpoe) ==
    [position |-> "QB", epa_per_play |-> epa, pass_attempts |-> att, cpoe |-> cpoe,
     games_played |-> gp, fppg |-> fppg]

RBRecord(gp, fppg, usage, ryoe, rz, tpg) ==
    [position |-> "RB", ryoe |-> ryoe, games_played |-> gp, fppg |-> fppg,
     targets_per_game |-> tpg, rz_opps_per_game |-> rz, ppr_usage_per_game |-> usage]

WRRecord(pos, gp, fppg, wopr, tpg, rz, cushion) ==
    [position |-> pos, wopr |-> wopr, avg_cushion |-> cushion, games_played |-> gp,
     fppg |-> fppg, targets_per_game |-> tpg, rz_opps_per_game |-> rz]

Groups == {"QB", "RB", "REC"}

\* Six records per group: 1 and 2 without tracking data and with one metric
\* running against fantasy points, 3 a middling player, 4 the best player at
\* everything with only two games, 5 the best with enough games, 6 a player
\* of another position.
RecordChoices(g) ==
    CASE g = "QB" -> << QBRecord(3, 0, 0, 2, None),
                        QBRecord(3, 2, 2, 0, None),
                        QBRecord(5, 1, 1, 1, 1),
                        QBRecord(2, 3, 3, 3, 3),
                        QBRecord(3, 3, 3, 3, 3),
                        RBRecord(3, 3, 1, None, 1, 1) >>
      [] g = "RB" -> << RBRecord(3, 0, 0, None, 0, 2),
                        RBRecord(3, 2, 2, None, 1, 0),
                        RBRecord(4, 1, 1, 1, 1, 1),
                        RBRecord(2, 3, 3, 3, 3, 3),
                        RBRecord(3, 3, 3, 3, 3, 3),
                        QBRecord(3, 1, 1, 1, None) >>
      [] OTHER    -> << WRRecord("WR", 3, 0, 2, 0, 0, None),
                        WRRecord("WR", 3, 2, 0, 2, 0, None),
                        WRRecord("WR", 4, 1, 1, 1, 1, 1),
                        WRRecord("WR", 2, 3, 3, 3, 3, 3),
                        WRRecord("WR", 3, 3, 3, 3, 3, 3),
                        WRRecord("TE", 3, 2, 1, 1, 0, None) >>

NumChoices == Len(RecordChoices("QB"))

\* The initial roster holds BaseCopies copies of each of two records.
BaseCopies == 4

\* At most this many records are added to the initial roster.
MaxAdded == 3

BasePairs == {<<1, 2>>, <<1, 3>>, <<1, 5>>}

Copies(rec, n) == [i \in 1..n |-> rec]

InitialRosters(g) ==
    {<<>>} \cup {Copies(RecordChoices(g)[b[1]], BaseCopies)
                 \o Copies(RecordChoices(g)[b[2]], BaseCopies) : b \in BasePairs}

NoCall == [op |-> "none", pos |-> "", sid |-> 0, weights |-> NoWeights,
           result |-> Returned(0)]

\* The positions a score is asked for: the four the engine knows and the
\* 'UNK' the callers pass for a player they cannot place.
QueryPositions == Positions \cup {"UNK"}

ScoreIdle ==
    /\ group = "QB"
    /\ added = <<>>
    /\ all_player_stats = <<>>
    /\ call = NoCall

ScoreInit ==
    /\ group \in Groups
    /\ added = <<>>
    /\ all_player_stats \in InitialRosters(group)
    /\ call = NoCall
    /\ TierIdle
    /\ IndexIdle
    /\ TradeIdle /\ LoadIdle /\ PctIdle /\ RunIdle /\ WeekIdle

\* One more record in the population (stats[sid] = {...}).  Records are added
\* in the order of RecordChoices: the engine reads the population's values,
\* never their order.
AddPlayer(i) ==
    /\ Len(added) < MaxAdded
    /\ added # <<>> => i >= added[Len(added)]
    /\ added' = Append(added, i)
    /\ all_player_stats' = Append(all_player_stats, RecordChoices(group)[i])
    /\ call' = NoCall
    /\ UNCHANGED group

GetDynamicWeights(position) ==
    /\ call.op = "none"
    /\ call' = [NoCall EXCEPT !.op = "weights", !.pos = position,
                              !.weights = get_dynamic_weights(all_player_stats, position)]
    /\ UNCHANGED <<group, added, all_player_stats>>

\* The record of player sid; sid 0 is a player without a record ({}).
PlayerData(stats, sid) == IF sid = 0 THEN <<>> ELSE stats[sid]

\* One player of each kind in the population.
FirstOfKind(stats) == {i \in 1..Len(stats) : \A j \in 1..(i - 1) : stats[j] # stats[i]}

CalculateNexxtScore(sid, pos) ==
    /\ call.op = "none"
    /\ call' = [NoCall EXCEPT !.op = "score", !.pos = pos, !.sid = sid,
                              !.result = calculate_nexxt_score(
                                             PlayerData(all_player_stats, sid), pos,
                                             all_player_stats)]
    /\ UNCHANGED <<group, added, all_player_stats>>

\* The caller takes the result.
Return ==
    /\ call.op # "none"
    /\ call' = NoCall
    /\ UNCHANGED <<group, added, all_player_stats>>

ScoreNext ==
    \/ \E i \in 1..NumChoices : AddPlayer(i)
    \/ \E position \in Positions : GetDynamicWeights(position)
    \/ \E sid \in {0} \cup FirstOfKind(all_player_stats), pos \in QueryPositions :
           CalculateNexxtScore(sid, pos)
    \/ Return

SpecScore ==
    ScoreInit /\ [][ScoreNext /\ UNCHANGED <<tierVars, indexVars, tradeVars, loadVars, pctVars, runVars, weekVars>>]_vars

\* ------------------------------------------------------------------------
\* apply_replacement_level
\* ------------------------------------------------------------------------

\* Scores are counted in 1/ScoreUnit, so that 89.999 is a score.
ScoreUnit == 1000

\* The largest score handed over, in whole points.
MaxScore == 100

\* (the tiers with the boundary value 90 left in the lower tier)
apply_replacement_level_strict(s) ==
    IF s > 90 * ScoreUnit THEN <<13, "Elite (1.3x)">>
    ELSE IF s >= 80 * ScoreUnit THEN <<10, "High Starter (1.0x)">>
    ELSE IF s >= 70 * ScoreUnit THEN <<8, "Low Starter (0.8x)">>
    ELSE IF s >= 60 * ScoreUnit THEN <<4, "High Scrub (0.4x)">>
    ELSE <<2, "Scrub (0.2x)">>

\* (multiplier in tenths, tier name)
apply_replacement_level(s) ==
    IF s >= 90 * ScoreUnit THEN <<13, "Elite (1.3x)">>
    ELSE IF s >= 80 * ScoreUnit THEN <<10, "High Starter (1.0x)">>
    ELSE IF s >= 70 * ScoreUnit THEN <<8, "Low Starter (0.8x)">>
    ELSE IF s >= 60 * ScoreUnit THEN <<4, "High Scrub (0.4x)">>
    ELSE <<2, "Scrub (0.2x)">>

TierInit ==
    /\ nexxt_score \in 0..(MaxScore * ScoreUnit)
    /\ tier = NoTier
    /\ ScoreIdle
    /\ IndexIdle
    /\ TradeIdle /\ LoadIdle /\ PctIdle /\ RunIdle /\ WeekIdle

ApplyReplacementLevel ==
    /\ ~tier.called
    /\ LET r == apply_replacement_level(nexxt_score)
       IN  tier' = [called |-> TRUE, multiplier |-> r[1], label |-> r[2]]
    /\ UNCHANGED nexxt_score

TierNext == ApplyReplacementLevel

SpecTier ==
    TierInit /\ [][TierNext /\ UNCHANGED <<scoreVars, indexVars, tradeVars, loadVars, pctVars, runVars, weekVars>>]_vars

\* ------------------------------------------------------------------------
\* get_predictive_index: the play aggregator
\* ------------------------------------------------------------------------

CURRENT_SEASON == 2025

\* A player id the feed leaves empty.
Missing == "<NA>"

\* astype(str): an empty id becomes the string 'None'.
Str(x) == IF x = Missing THEN "None" ELSE x

\* The master list after load_nfl_data's cleaning, in the order of its
\* gsis ids: (gsis_id, sleeper_id, team, position).
Ids ==
    << [gsis_id |-> "00-A", sleeper_id |-> "1", team |-> "KC",  position |-> "QB"],
       [gsis_id |-> "00-B", sleeper_id |-> "2", team |-> "KCC", position |-> "RB"],
       [gsis_id |-> "00-C", sleeper_id |-> "3", team |-> "FA",  position |-> "WR"] >>

\* TEAM_MAP.get(team, team), for the teams of the model.
TeamMapGet(team) ==
    CASE team = "KC"  -> "KCC"
      [] team = "KCC" -> "KC"
      [] team = "LV"  -> "LVR"
      [] team = "LVR" -> "LV"
      [] OTHER        -> team

\* The games of the season: game g is played in week g.
MaxGames == 2

\* At most this many plays in the feed.
MaxPlays == 3

GameId(g) == <<CURRENT_SEASON, g>>
DefTeam(g) == IF g % 2 = 1 THEN "DEN" ELSE "LV"

\* A pass play: a 10-yard completion inside the red zone, a 20-yard
\* touchdown pass, or an interception.
PassPlay(g, passer, receiver, outcome) ==
    [game_id |-> GameId(g), week |-> g, play_type |-> "pass",
     posteam |-> "KC", defteam |-> DefTeam(g),
     passer_player_id |-> passer, rusher_player_id |-> Missing,
     receiver_player_id |-> receiver,
     passing_yards   |-> CASE outcome = "complete" -> 10
                           [] outcome = "td" -> 20
                           [] OTHER -> None,
     receiving_yards |-> CASE outcome = "complete" -> 10
                           [] outcome = "td" -> 20
                           [] OTHER -> None,
     rushing_yards   |-> None,
     complete_pass   |-> IF outcome \in {"complete", "td"} THEN 1 ELSE 0,
     pass_touchdown  |-> IF outcome = "td" THEN 1 ELSE 0,
     rush_touchdown  |-> 0,
     interception    |-> IF outcome \in {"complete", "td"} THEN 0 ELSE 1,
     fumble_lost     |-> 0,
     yardline_100    |-> CASE outcome = "complete" -> 15
                           [] outcome = "td" -> 20
                           [] OTHER -> 50,
     epa             |-> CASE outcome = "complete" -> 10
                           [] outcome = "td" -> 40
                           [] OTHER -> -20]

\* A run play: a 10-yard gain at midfield, or a 5-yard touchdown.
RunPlay(g, rusher, outcome) ==
    [game_id |-> GameId(g), week |-> g, play_type |-> "run",
     posteam |-> "KC", defteam |-> DefTeam(g),
     passer_player_id |-> Missing, rusher_player_id |-> rusher,
     receiver_player_id |-> Missing,
     passing_yards |-> None, receiving_yards |-> None,
     rushing_yards   |-> IF outcome = "gain" THEN 10 ELSE 5,
     complete_pass   |-> 0,
     pass_touchdown  |-> 0,
     rush_touchdown  |-> IF outcome = "gain" THEN 0 ELSE 1,
     interception    |-> 0, fumble_lost |-> 0,
     yardline_100    |-> IF outcome = "gain" THEN 50 ELSE 5,
     epa             |-> IF outcome = "gain" THEN 5 ELSE 30]

\* The quarterback throws to the back or the receiver; the receiver throws
\* to the back (a trick play); the quarterback or the back runs.
PlayChoiceSet ==
    {PassPlay(g, "00-A", r, o) :
        g \in 1..MaxGames, r \in {"00-B", "00-C"}, o \in {"complete", "intercepted"}}
    \cup
    {PassPlay(g, "00-A", "00-C", "td") : g \in 1..MaxGames}
    \cup
    {PassPlay(g, "00-C", "00-B", "complete") : g \in 1..MaxGames}
    \cup
    {RunPlay(g, r, o) : g \in 1..MaxGames, r \in {"00-A", "00-B"}, o \in {"gain", "td"}}

RECURSIVE SetToSeq(_)
SetToSeq(S) ==
    IF S = {} THEN <<>>
    ELSE LET x == CHOOSE y \in S : TRUE IN <<x>> \o SetToSeq(S \ {x})

PlayChoices == SetToSeq(PlayChoiceSet)

\* x.fillna(0)
FillNa(x) == IF x = None THEN 0 ELSE x

\* ('col', lambda x: x.fillna(0).sum())
SumOf(plays, col) == SumSeq(Map(plays, LAMBDA p : FillNa(p[col])))

\* ('game_id', 'nunique')
NUnique(plays) == Cardinality({plays[i].game_id : i \in 1..Len(plays)})

\* ('yardline_100', lambda x: (x <= 20).sum())
RedZone(plays) == Cardinality({i \in 1..Len(plays) : plays[i].yardline_100 <= 20})

\* groupby(col)['epa'].mean().to_dict(): team -> <<sum, count>>.
MeanEpaBy(plays, col) ==
    [t \in {plays[i][col] : i \in 1..Len(plays)} |->
        LET rows == SelectSeq(plays, LAMBDA p : p[col] = t)
        IN  <<SumOf(rows, "epa"), Len(rows)>>]

\* (the window with the current week let in)
CompletedThroughCurrent(plays, week) == SelectSeq(plays, LAMBDA p : p.week <= week)

\* pbp[pbp['week'] < current_week]
Completed(plays, week) == SelectSeq(plays, LAMBDA p : p.week < week)

\* Per-game figures are fractions over the number of games; they are kept
\* as integers in units of 1 / GameDen, GameDen a multiple of every number
\* of games.  Fantasy points are in hundredths of a point.
RECURSIVE Factorial(_)
Factorial(n) == IF n <= 1 THEN 1 ELSE n * Factorial(n - 1)

GameDen == Factorial(MaxGames)

PerGame(total, games) == total * (GameDen \div games)

\* The plays of one role of one player: rows whose id column, as a string,
\* is the player's and is neither 'nan' nor 'None'.
RolePlays(plays, play_type, col, gsis) ==
    SelectSeq(plays, LAMBDA p : /\ p.play_type = play_type
                                /\ Str(p[col]) \notin {"nan", "None"}
                                /\ Str(p[col]) = gsis)

\* (the passing pass with six points for a passing touchdown)
RECURSIVE PassingPassSixPoints(_, _, _, _)
PassingPassSixPoints(ids, plays, i, per_game_dict) ==
    IF i > Len(ids) THEN per_game_dict
    ELSE
    LET rows == RolePlays(plays, "pass", "passer_player_id", ids[i].gsis_id)
        sid == ids[i].sleeper_id
        games == Max(NUnique(rows), 1)
        fp == SumOf(rows, "passing_yards") * 4 + SumOf(rows, "pass_touchdown") * 600
              - SumOf(rows, "interception") * 200
    IN  IF rows = <<>> THEN PassingPassSixPoints(ids, plays, i + 1, per_game_dict)
        ELSE PassingPassSixPoints(ids, plays, i + 1,
                 (sid :> [games_played |-> games,
                          fppg |-> PerGame(fp, games),
                          targets_per_game |-> 0,
                          carries_per_game |-> 0,
                          rz_opps_per_game |-> 0]) @@ per_game_dict)

\* The passing pass over the rows of qb_stats from row i on.
RECURSIVE PassingPass(_, _, _, _)
PassingPass(ids, plays, i, per_game_dict) ==
    IF i > Len(ids) THEN per_game_dict
    ELSE
    LET rows == RolePlays(plays, "pass", "passer_player_id", ids[i].gsis_id)
        sid == ids[i].sleeper_id
        games == Max(NUnique(rows), 1)
        fp == SumOf(rows, "passing_yards") * 4 + SumOf(rows, "pass_touchdown") * 400
              - SumOf(rows, "interception") * 200
    IN  IF rows = <<>> THEN PassingPass(ids, plays, i + 1, per_game_dict)
        ELSE PassingPass(ids, plays, i + 1,
                 (sid :> [games_played |-> games,
                          fppg |-> PerGame(fp, games),
                          targets_per_game |-> 0,
                          carries_per_game |-> 0,
                          rz_opps_per_game |-> 0]) @@ per_game_dict)

\* The rushing pass over the rows of rusher_stats from row i on.
RECURSIVE RushingPass(_, _, _, _)
RushingPass(ids, plays, i, per_game_dict) ==
    IF i > Len(ids) THEN per_game_dict
    ELSE
    LET rows == RolePlays(plays, "run", "rusher_player_id", ids[i].gsis_id)
        sid == ids[i].sleeper_id
        games == Max(NUnique(rows), 1)
        fp == SumOf(rows, "rushing_yards") * 10 + SumOf(rows, "rush_touchdown") * 600
              - SumOf(rows, "fumble_lost") * 200
    IN  IF rows = <<>> THEN RushingPass(ids, plays, i + 1, per_game_dict)
        ELSE IF sid \in DOMAIN per_game_dict
        THEN RushingPass(ids, plays, i + 1,
                 [per_game_dict EXCEPT
                     ![sid].fppg = @ + PerGame(fp, games),
                     ![sid].carries_per_game = PerGame(Len(rows), games),
                     ![sid].rz_opps_per_game = PerGame(RedZone(rows), games)])
        ELSE RushingPass(ids, plays, i + 1,
                 (sid :> [games_played |-> games,
                          fppg |-> PerGame(fp, games),
                          targets_per_game |-> 0,
                          carries_per_game |-> PerGame(Len(rows), games),
                          rz_opps_per_game |-> PerGame(RedZone(rows), games)])
                 @@ per_game_dict)

\* The receiving pass over the rows of receiver_stats from row i on.
RECURSIVE ReceivingPass(_, _, _, _)
ReceivingPass(ids, plays, i, per_game_dict) ==
    IF i > Len(ids) THEN per_game_dict
    ELSE
    LET rows == RolePlays(plays, "pass", "receiver_player_id", ids[i].gsis_id)
        sid == ids[i].sleeper_id
        games == Max(NUnique(rows), 1)
        fp == SumOf(rows, "receiving_yards") * 10 + SumOf(rows, "pass_touchdown") * 600
              + SumOf(rows, "complete_pass") * 100 - SumOf(rows, "fumble_lost") * 200
    IN  IF rows = <<>> THEN ReceivingPass(ids, plays, i + 1, per_game_dict)
        ELSE IF sid \in DOMAIN per_game_dict
        THEN ReceivingPass(ids, plays, i + 1,
                 [per_game_dict EXCEPT
                     ![sid].fppg = @ + PerGame(fp, games),
                     ![sid].targets_per_game = PerGame(Len(rows), games),
                     ![sid].rz_opps_per_game = @ + PerGame(RedZone(rows), games),
                     ![sid].games_played = Max(@, games)])
        ELSE ReceivingPass(ids, plays, i + 1,
                 (sid :> [games_played |-> games,
                          fppg |-> PerGame(fp, games),
                          targets_per_game |-> PerGame(Len(rows), games),
                          carries_per_game |-> 0,
                          rz_opps_per_game |-> PerGame(RedZone(rows), games)])
                 @@ per_game_dict)

\* per_game_dict after the three passes.
PerGameDict(ids, plays) ==
    ReceivingPass(ids, plays, 1,
        RushingPass(ids, plays, 1, PassingPass(ids, plays, 1, <<>>)))

\* ids[ids['gsis_id'] == gsis].iloc[0]['team'], 'UNK' without a row.
TeamOf(ids, gsis) ==
    IF \E i \in 1..Len(ids) : ids[i].gsis_id = gsis
    THEN ids[CHOOSE i \in 1..Len(ids) :
                /\ ids[i].gsis_id = gsis
                /\ \A j \in 1..(i - 1) : ids[j].gsis_id # gsis].team
    ELSE "UNK"

\* player_positions.get(sid, default): the last row of a sleeper id wins.
PlayerPosition(ids, sid, default) ==
    IF \E i \in 1..Len(ids) : ids[i].sleeper_id = sid
    THEN ids[CHOOSE i \in 1..Len(ids) :
                /\ ids[i].sleeper_id = sid
                /\ \A j \in (i + 1)..Len(ids) : ids[j].sleeper_id # sid].position
    ELSE default

\* (the lookup without the TEAM_MAP retry)
TeamEpaNoAlias(team_off_epa, team) ==
    IF team \in DOMAIN team_off_epa THEN team_off_epa[team] ELSE <<0, 1>>

\* team_off_epa.get(team, team_off_epa.get(TEAM_MAP.get(team, team), 0)),
\* a mean being <<sum, count>> and 0 being <<0, 1>>.
TeamEpa(team_off_epa, team) ==
    IF team \in DOMAIN team_off_epa THEN team_off_epa[team]
    ELSE IF TeamMapGet(team) \in DOMAIN team_off_epa
    THEN team_off_epa[TeamMapGet(team)]
    ELSE <<0, 1>>

\* per_game_dict.get(sid, {'games_played': 1, 'fppg': 0, ...})
PgData(per_game_dict, sid) ==
    IF sid \in DOMAIN per_game_dict THEN per_game_dict[sid]
    ELSE [games_played |-> 1, fppg |-> 0, targets_per_game |-> 0,
          carries_per_game |-> 0, rz_opps_per_game |-> 0]

\* The rows of one id column's groupby that the inner join with the master
\* list keeps: the plays of the type whose id is the row's gsis id.
Grouped(plays, play_type, col, gsis) ==
    SelectSeq(plays, LAMBDA p : p.play_type = play_type /\ Str(p[col]) = gsis)

\* At most this many rows of a player in a tracking table; a mean is kept
\* in units of 1 / NgsDen.
MaxNgsRows == 2
NgsDen == Factorial(MaxNgsRows)

\* (an unknown advanced metric recorded as 0)
NgsGetZero(season_dict, sid) ==
    IF sid \in DOMAIN season_dict THEN season_dict[sid] ELSE 0

\* ngs_qb_season.get(sid): None without an entry.
NgsGet(season_dict, sid) ==
    IF sid \in DOMAIN season_dict THEN season_dict[sid] ELSE None

\* 1. the QB records: every passer of the master list.
RECURSIVE QBLoop(_, _, _, _, _, _, _)
QBLoop(ids, ngs_qb_season, plays, i, per_game_dict, team_off_epa, stats) ==
    IF i > Len(ids) THEN stats
    ELSE
    LET rows == Grouped(plays, "pass", "passer_player_id", ids[i].gsis_id)
        sid == ids[i].sleeper_id
        pg_data == PgData(per_game_dict, sid)
    IN  IF rows = <<>> THEN QBLoop(ids, ngs_qb_season, plays, i + 1, per_game_dict,
                    team_off_epa, stats)
        ELSE QBLoop(ids, ngs_qb_season, plays, i + 1, per_game_dict, team_off_epa,
                 (sid :> [position |-> "QB",
                          epa_per_play |-> <<SumOf(rows, "epa"), Len(rows)>>,
                          pass_attempts |-> Len(rows),
                          cpoe |-> NgsGet(ngs_qb_season, sid),
                          games_played |-> pg_data.games_played,
                          fppg |-> pg_data.fppg,
                          team_epa |-> TeamEpa(team_off_epa, TeamOf(ids, ids[i].gsis_id))])
                 @@ stats)

\* 2. the RB records: the rushers the master list calls RB.
RECURSIVE RBLoop(_, _, _, _, _, _, _)
RBLoop(ids, ngs_rb_season, plays, i, per_game_dict, team_off_epa, stats) ==
    IF i > Len(ids) THEN stats
    ELSE
    LET rows == Grouped(plays, "run", "rusher_player_id", ids[i].gsis_id)
        sid == ids[i].sleeper_id
        pg_data == PgData(per_game_dict, sid)
    IN  IF rows = <<>> \/ PlayerPosition(ids, sid, "RB") # "RB"
        THEN RBLoop(ids, ngs_rb_season, plays, i + 1, per_game_dict,
                    team_off_epa, stats)
        ELSE RBLoop(ids, ngs_rb_season, plays, i + 1, per_game_dict, team_off_epa,
                 (sid :> [position |-> "RB",
                          carries |-> Len(rows),
                          rz_touches |-> RedZone(rows),
                          ryoe |-> NgsGet(ngs_rb_season, sid),
                          games_played |-> pg_data.games_played,
                          fppg |-> pg_data.fppg,
                          targets_per_game |-> pg_data.targets_per_game,
                          rz_opps_per_game |-> pg_data.rz_opps_per_game,
                          ppr_usage_per_game |-> pg_data.carries_per_game
                                                 + pg_data.targets_per_game,
                          team_epa |-> TeamEpa(team_off_epa, TeamOf(ids, ids[i].gsis_id))])
                 @@ stats)

\* 3. the WR and TE records: the targets the master list calls WR or TE.
\* (wopr, tgt_share and yprr, which no aggregate of the passes above feeds,
\* are left out of the record.)
RECURSIVE WRLoop(_, _, _, _, _, _, _)
WRLoop(ids, ngs_wr_season, plays, i, per_game_dict, team_off_epa, stats) ==
    IF i > Len(ids) THEN stats
    ELSE
    LET rows == Grouped(plays, "pass", "receiver_player_id", ids[i].gsis_id)
        sid == ids[i].sleeper_id
        pos == PlayerPosition(ids, sid, "WR")
        pg_data == PgData(per_game_dict, sid)
    IN  IF rows = <<>> \/ pos \notin {"WR", "TE"}
        THEN WRLoop(ids, ngs_wr_season, plays, i + 1, per_game_dict,
                    team_off_epa, stats)
        ELSE WRLoop(ids, ngs_wr_season, plays, i + 1, per_game_dict, team_off_epa,
                 (sid :> [position |-> pos,
                          rz_opps |-> RedZone(rows),
                          avg_cushion |-> NgsGet(ngs_wr_season, sid),
                          games_played |-> pg_data.games_played,
                          fppg |-> pg_data.fppg,
                          targets_per_game |-> pg_data.targets_per_game,
                          rz_opps_per_game |-> pg_data.rz_opps_per_game,
                          team_epa |-> TeamEpa(team_off_epa, ids[i].team)])
                 @@ stats)

\* The season averages of one tracking table, by sleeper id: empty when the
\* table is empty or lacks the id or the metric column; else the mean of the
\* column over each player's rows, under the sleeper id of the first row of
\* the master list with the player's gsis id.
RECURSIVE NgsSeason(_, _, _, _, _)
NgsSeason(ids, table, column, i, season_dict) ==
    IF table = <<>> THEN season_dict
    ELSE IF "player_gsis_id" \notin DOMAIN table[1] \/ column \notin DOMAIN table[1]
    THEN season_dict
    ELSE IF i > Len(ids) THEN season_dict
    ELSE
    LET rows == SelectSeq(table, LAMBDA r : Str(r.player_gsis_id) = ids[i].gsis_id)
        first == \A j \in 1..(i - 1) : ids[j].gsis_id # ids[i].gsis_id
        mean == SumSeq(Map(rows, LAMBDA r : r[column])) * (NgsDen \div Len(rows))
    IN  IF rows = <<>> \/ ~first
        THEN NgsSeason(ids, table, column, i + 1, season_dict)
        ELSE NgsSeason(ids, table, column, i + 1, (ids[i].sleeper_id :> mean) @@ season_dict)

\* The body of get_predictive_index on what load_nfl_data returned:
\* (stats, def_stats, actual_season).
PredictiveIndex(data, week) ==
    IF data.actual_season = None THEN EmptyIndex          \* pbp is None
    ELSE IF data.pbp = <<>> THEN EmptyIndex
    ELSE
    LET plays == Completed(data.pbp, week)
        ids == data.ids
    IN  IF plays = <<>> THEN EmptyIndex
        ELSE
        LET def_stats == MeanEpaBy(plays, "defteam")
            team_off_epa == MeanEpaBy(plays, "posteam")
            ngs_qb_season == NgsSeason(ids, data.ngs_pass,
                                 "completion_percentage_above_expectation", 1, <<>>)
            ngs_rb_season == NgsSeason(ids, data.ngs_rush,
                                 "rush_yards_over_expected_per_att", 1, <<>>)
            ngs_wr_season == NgsSeason(ids, data.ngs_rec, "avg_cushion", 1, <<>>)
            per_game_dict == PerGameDict(ids, plays)
            stats ==
                WRLoop(ids, ngs_wr_season, plays, 1, per_game_dict, team_off_epa,
                  RBLoop(ids, ngs_rb_season, plays, 1, per_game_dict, team_off_epa,
                    QBLoop(ids, ngs_qb_season, plays, 1, per_game_dict, team_off_epa,
                           <<>>)))
        IN  [stats |-> stats, def_stats |-> def_stats,
             actual_season |-> data.actual_season]

\* load_nfl_data's return on its first path for a season whose feed is
\* `feed`, whose tracking tables are empty and whose master list is Ids.
Loaded(feed) ==
    [pbp |-> feed, ngs_pass |-> <<>>, ngs_rush |-> <<>>, ngs_rec |-> <<>>,
     ids |-> Ids, actual_season |-> CURRENT_SEASON]

\* get_predictive_index on that return.
get_predictive_index(feed, week) == PredictiveIndex(Loaded(feed), week)

\* The weeks get_current_week answers in the model.
Weeks == 1..(MaxGames + 1)

IndexInit ==
    /\ pbp = <<>>
    /\ fed = <<>>
    /\ current_week \in Weeks
    /\ index = NoIndex
    /\ cache = <<>>
    /\ ScoreIdle
    /\ TierIdle
    /\ TradeIdle /\ LoadIdle /\ PctIdle /\ RunIdle /\ WeekIdle

\* The feed holds one more play.  Plays are fed in the order of PlayChoices:
\* the aggregates do not depend on the order of the rows.
AddPlay(i) ==
    /\ ~index.called
    /\ Len(fed) < MaxPlays
    /\ fed # <<>> => i >= fed[Len(fed)]
    /\ fed' = Append(fed, i)
    /\ pbp' = Append(pbp, PlayChoices[i])
    /\ UNCHANGED <<current_week, index, cache>>

\* One run of get_predictive_index's body.
GetPredictiveIndex ==
    /\ ~index.called
    /\ index' = [called |-> TRUE, cutoff |-> current_week,
                 value |-> get_predictive_index(pbp, current_week)]
    /\ UNCHANGED <<pbp, fed, current_week, cache>>

IndexNext ==
    \/ \E i \in 1..Len(PlayChoices) : AddPlay(i)
    \/ GetPredictiveIndex

SpecIndex ==
    IndexInit /\ [][IndexNext /\ UNCHANGED <<scoreVars, tierVars, tradeVars, loadVars, pctVars, runVars, weekVars>>]_vars

\* ------------------------------------------------------------------------
\* load_nfl_data, and get_predictive_index on what it returns
\* ------------------------------------------------------------------------

FALLBACK_SEASON == 2024

Seasons == {CURRENT_SEASON, FALLBACK_SEASON}

\* What one loader call of the data provider gives: a table, or an exception.
Table(rows) == [ok |-> TRUE, rows |-> rows]
Failure == [ok |-> FALSE, rows |-> <<>>]

\* astype(str) of a float column: an empty sleeper id becomes 'nan'.
StrFloat(x) == IF x = Missing THEN "nan" ELSE x

\* The provider's master list with nothing missing, and one with two players
\* (00-D, 00-E) without a sleeper id and one without a gsis id.
RawIdsDirty ==
    << [gsis_id |-> "00-A", sleeper_id |-> "1", team |-> "KC", position |-> "QB"],
       [gsis_id |-> "00-B", sleeper_id |-> "2", team |-> "KC", position |-> "RB"],
       [gsis_id |-> "00-D", sleeper_id |-> Missing, team |-> "KC", position |-> "RB"],
       [gsis_id |-> "00-E", sleeper_id |-> Missing, team |-> "KC", position |-> "WR"],
       [gsis_id |-> Missing, sleeper_id |-> "9", team |-> "KC", position |-> "WR"] >>

RawIdsChoices == {Failure, Table(Ids), Table(RawIdsDirty)}

\* The feeds of the two seasons: 00-A passes, 00-B and 00-D run, 00-E and
\* nobody are thrown at.
InSeason(play, season) == [play EXCEPT !.game_id = <<season, play.week>>]

FeedOf(season) ==
    IF season = CURRENT_SEASON
    THEN << PassPlay(1, "00-A", "00-E", "complete"),
            RunPlay(1, "00-D", "gain"),
            RunPlay(1, "00-B", "td"),
            PassPlay(2, "00-A", Missing, "intercepted") >>
    ELSE << InSeason(PassPlay(1, "00-A", "00-B", "complete"), season),
            InSeason(RunPlay(2, "00-B", "gain"), season) >>

FeedChoices(season) == {Failure, Table(<<>>), Table(FeedOf(season))}

\* The tracking tables of a season: weekly rows of a player and a metric.
NgsRow(gsis, column, value) == (("player_gsis_id" :> gsis) @@ (column :> value))

NgsPassRows ==
    << NgsRow("00-A", "completion_percentage_above_expectation", 2),
       NgsRow("00-A", "completion_percentage_above_expectation", 4) >>
NgsRushRows ==
    << NgsRow("00-B", "rush_yards_over_expected_per_att", 1),
       NgsRow(Missing, "rush_yards_over_expected_per_att", 3) >>
NgsRecRows ==
    << NgsRow("00-C", "avg_cushion", 6) >>

Tracking(passing, rushing, receiving) ==
    [passing |-> passing, rushing |-> rushing, receiving |-> receiving]

\* All three tables filled; all three empty; one failing; one without its
\* metric column; one without its id column.
NgsChoices ==
    { Tracking(Table(NgsPassRows), Table(NgsRushRows), Table(NgsRecRows)),
      Tracking(Table(<<>>), Table(<<>>), Table(<<>>)),
      Tracking(Failure, Table(NgsRushRows), Table(NgsRecRows)),
      Tracking(Table(NgsPassRows), Failure, Table(NgsRecRows)),
      Tracking(Table(NgsPassRows),
               Table(<< [player_gsis_id |-> "00-B", efficiency |-> 1] >>),
               Table(NgsRecRows)),
      Tracking(Table(<< [completion_percentage_above_expectation |-> 2] >>),
               Table(NgsRushRows), Table(<<>>)) }

NgsFallbackChoices ==
    { Tracking(Table(NgsPassRows), Table(NgsRushRows), Table(NgsRecRows)),
      Tracking(Table(NgsPassRows), Table(NgsRushRows), Failure) }

\* The master list as load_nfl_data cleans it: both ids as strings, the rows
\* whose gsis id is 'nan' or 'None' dropped.
CleanIds(raw) ==
    SelectSeq(Map(raw, LAMBDA r : [r EXCEPT !.sleeper_id = StrFloat(r.sleeper_id),
                                            !.gsis_id = Str(r.gsis_id)]),
              LAMBDA r : r.gsis_id \notin {"nan", "None"})

\* One try block of load_nfl_data: the five loads of a season; an exception
\* of any of them, or (where checked) an empty feed, leaves the block.
LoadsOf(up, s) ==
    /\ up.pbp[s].ok
    /\ up.ngs[s].passing.ok /\ up.ngs[s].rushing.ok /\ up.ngs[s].receiving.ok
    /\ up.ids.ok

DataOf(up, s) ==
    [pbp |-> up.pbp[s].rows,
     ngs_pass |-> up.ngs[s].passing.rows,
     ngs_rush |-> up.ngs[s].rushing.rows,
     ngs_rec |-> up.ngs[s].receiving.rows,
     ids |-> CleanIds(up.ids.rows),
     actual_season |-> s]

\* (the fallback tables handed over under the requested season's label)
load_nfl_data_mislabelled(up, season) ==
    IF LoadsOf(up, season) /\ up.pbp[season].rows # <<>> THEN DataOf(up, season)
    ELSE IF season = CURRENT_SEASON
    THEN IF LoadsOf(up, FALLBACK_SEASON)
         THEN [DataOf(up, FALLBACK_SEASON) EXCEPT !.actual_season = season]
         ELSE NothingLoaded
    ELSE NothingLoaded

load_nfl_data(up, season) ==
    IF LoadsOf(up, season) /\ up.pbp[season].rows # <<>> THEN DataOf(up, season)
    ELSE IF season = CURRENT_SEASON
    THEN IF LoadsOf(up, FALLBACK_SEASON) THEN DataOf(up, FALLBACK_SEASON)
         ELSE NothingLoaded
    ELSE NothingLoaded

\* The seasons whose try block a call of load_nfl_data runs, in order: the
\* requested one, then the fallback one when the first block is left by an
\* exception and the requested season is the current one.
SeasonsTried(up, season) ==
    IF LoadsOf(up, season) /\ up.pbp[season].rows # <<>> THEN <<season>>
    ELSE IF season = CURRENT_SEASON THEN <<season, FALLBACK_SEASON>>
    ELSE <<season>>

LoadInit ==
    /\ upstream \in [pbp : {f \in [Seasons -> UNION {FeedChoices(s) : s \in Seasons}] :
                               \A s \in Seasons : f[s] \in FeedChoices(s)},
                     ngs : {f \in [Seasons -> NgsChoices \cup NgsFallbackChoices] :
                               /\ f[CURRENT_SEASON] \in NgsChoices
                               /\ f[FALLBACK_SEASON] \in NgsFallbackChoices},
                     ids : RawIdsChoices]
    /\ loaded = NoLoad
    /\ current_week \in Weeks
    /\ index = NoIndex
    /\ pbp = <<>>
    /\ fed = <<>>
    /\ cache = <<>>
    /\ ScoreIdle
    /\ TierIdle
    /\ TradeIdle /\ PctIdle /\ RunIdle /\ WeekIdle

\* load_nfl_data(season), called on its own.
LoadNflData(season) ==
    /\ ~loaded.called
    /\ ~index.called
    /\ loaded' = [called |-> TRUE, season |-> season,
                  tried |-> SeasonsTried(upstream, season),
                  value |-> load_nfl_data(upstream, season)]
    /\ UNCHANGED <<upstream, indexVars>>

\* get_predictive_index(season): load_nfl_data(season), then the body.
GetPredictiveIndexOf(season) ==
    /\ ~index.called
    /\ loaded.called => loaded.season = season
    /\ LET data == load_nfl_data(upstream, season)
       IN  /\ loaded' = [called |-> TRUE, season |-> season,
                         tried |-> SeasonsTried(upstream, season), value |-> data]
           /\ index' = [called |-> TRUE, cutoff |-> current_week,
                        value |-> PredictiveIndex(data, current_week)]
    /\ UNCHANGED <<upstream, pbp, fed, current_week, cache>>

LoadNext ==
    \/ \E season \in Seasons : LoadNflData(season)
    \/ \E season \in Seasons : GetPredictiveIndexOf(season)

SpecLoad ==
    LoadInit /\ [][LoadNext /\ UNCHANGED <<scoreVars, tierVars, tradeVars, pctVars, runVars, weekVars>>]_vars

\* ------------------------------------------------------------------------
\* get_predictive_index behind @st.cache_data: the result is stored under
\* the call's argument, the season, and a later call with the same argument
\* is answered from the store.  Nothing in the program clears the store; it
\* lives in the server process and is empty when the process starts.

\* The feeds load_nfl_data hands over in this specification: two plays.
CacheFeeds ==
    {<<i, j>> : i \in 1..Len(PlayChoices), j \in 1..Len(PlayChoices)}

CacheInit ==
    /\ fed \in {f \in CacheFeeds : f[1] <= f[2]}
    /\ pbp = <<PlayChoices[fed[1]], PlayChoices[fed[2]]>>
    /\ current_week = 1
    /\ index = NoIndex
    /\ cache = <<>>
    /\ ScoreIdle
    /\ TierIdle
    /\ TradeIdle /\ LoadIdle /\ PctIdle /\ RunIdle /\ WeekIdle

\* get_current_week answers the next week from now on.
AdvanceWeek ==
    /\ current_week + 1 \in Weeks
    /\ current_week' = current_week + 1
    /\ UNCHANGED <<pbp, fed, index, cache, runs>>

\* get_predictive_index(CURRENT_SEASON) with nothing stored for the season:
\* the body runs and its result is stored.
CacheMiss ==
    /\ CURRENT_SEASON \notin DOMAIN cache
    /\ LET value == get_predictive_index(pbp, current_week)
       IN  /\ index' = [called |-> TRUE, cutoff |-> current_week, value |-> value]
           /\ cache' = (CURRENT_SEASON :> value) @@ cache
           /\ runs' = runs \cup {[cutoff |-> current_week, value |-> value]}
    /\ UNCHANGED <<pbp, fed, current_week>>

\* get_predictive_index(CURRENT_SEASON) with a result stored for the season:
\* the stored result is returned and the body does not run.
CacheHit ==
    /\ CURRENT_SEASON \in DOMAIN cache
    /\ index' = [called |-> TRUE, cutoff |-> current_week,
                 value |-> cache[CURRENT_SEASON]]
    /\ runs' = runs \cup {[cutoff |-> current_week, value |-> cache[CURRENT_SEASON]]}
    /\ UNCHANGED <<pbp, fed, current_week, cache>>

\* The server process is started again: the module is constructed anew and
\* st.cache_data's store is empty.  The tables and the week are the world's.
Restart ==
    /\ cache # <<>>
    /\ cache' = <<>>
    /\ index' = NoIndex
    /\ UNCHANGED <<pbp, fed, current_week, runs>>

CacheNext ==
    \/ AdvanceWeek
    \/ CacheMiss
    \/ CacheHit
    \/ Restart

SpecCache ==
    CacheInit /\ [][CacheNext /\ UNCHANGED <<scoreVars, tierVars, tradeVars, loadVars, pctVars, weekVars>>]_vars

\* ------------------------------------------------------------------------
\* The trade audit (tab3)
\* ------------------------------------------------------------------------

\* The scores a side's players carry: 0 for a player without a record, else
\* what calculate_nexxt_score returned; the tier boundaries and their
\* neighbours.
TradeScores == {0, 10, 59, 60, 69, 70, 79, 80, 89, 90, 99}

\* At most this many players on a side.
MaxSide == 2

\* "for p in details: adj_val, tier = apply_replacement_level(p['nexxt']);
\* adjusted += adj_val": the sum, in tenths, of what the loop adds.
RECURSIVE Adjusted(_)
Adjusted(details) ==
    IF details = <<>> THEN 0
    ELSE LET adj_val == apply_replacement_level(Head(details) * ScoreUnit)[1]
         IN  adj_val + Adjusted(Tail(details))

TradeInit ==
    /\ give_details = <<>>
    /\ get_details = <<>>
    /\ audit = NoAudit
    /\ ScoreIdle
    /\ TierIdle
    /\ IndexIdle
    /\ LoadIdle /\ PctIdle /\ RunIdle /\ WeekIdle

\* A player is selected on the give side.  Players are selected in the order
\* of their scores: the sums do not depend on the order.
SelectGive(nexxt) ==
    /\ ~audit.called
    /\ Len(give_details) < MaxSide
    /\ give_details # <<>> => nexxt >= give_details[Len(give_details)]
    /\ give_details' = Append(give_details, nexxt)
    /\ UNCHANGED <<get_details, audit>>

SelectGet(nexxt) ==
    /\ ~audit.called
    /\ Len(get_details) < MaxSide
    /\ get_details # <<>> => nexxt >= get_details[Len(get_details)]
    /\ get_details' = Append(get_details, nexxt)
    /\ UNCHANGED <<give_details, audit>>

\* "Audit This Trade" with a player selected on either side.
AuditTrade ==
    /\ ~audit.called
    /\ ~(give_details = <<>> /\ get_details = <<>>)
    /\ LET give_adjusted == Adjusted(give_details)
           get_adjusted == Adjusted(get_details)
       IN  audit' = [called |-> TRUE, give_adjusted |-> give_adjusted,
                     get_adjusted |-> get_adjusted,
                     value_diff |-> get_adjusted - give_adjusted]
    /\ UNCHANGED <<give_details, get_details>>

TradeNext ==
    \/ \E nexxt \in TradeScores : SelectGive(nexxt)
    \/ \E nexxt \in TradeScores : SelectGet(nexxt)
    \/ AuditTrade

SpecTrade ==
    TradeInit /\ [][TradeNext /\ UNCHANGED <<scoreVars, tierVars, indexVars, loadVars, pctVars, runVars, weekVars>>]_vars

\* ------------------------------------------------------------------------
\* The percentile rank calculate_nexxt_score takes of a value among the
\* peers' values, on its own
\* ------------------------------------------------------------------------

\* The values are 0..MaxVal and there are at most MaxPeers peers.
MaxVal == 3
MaxPeers == 4

\* The peers' values in ascending order (the rank does not depend on the
\* order); a position that is scored has a peer or more.
PeerValues ==
    UNION {{v \in [1..n -> 0..MaxVal] : \A i \in 1..(n - 1) : v[i] <= v[i + 1]} :
              n \in 1..MaxPeers}

PctInit ==
    /\ peer_vals \in PeerValues
    /\ ranked = <<>>
    /\ ScoreIdle
    /\ TierIdle
    /\ IndexIdle
    /\ TradeIdle /\ LoadIdle /\ RunIdle /\ WeekIdle

\* "percentileofscore(vals, val, kind='rank') / 100 if len(vals) > 1 else
\* 0.5" is taken of val: ranked[val] is its numerator over 2 * len(vals).
RankValue(val) ==
    /\ val \notin DOMAIN ranked
    /\ ranked' = (val :> Percentile(peer_vals, val)) @@ ranked
    /\ UNCHANGED peer_vals

PctNext == \E val \in 0..MaxVal : RankValue(val)

SpecPct ==
    PctInit /\ [][PctNext /\ UNCHANGED <<scoreVars, tierVars, indexVars, tradeVars, loadVars, runVars, weekVars>>]_vars

\* ------------------------------------------------------------------------
\* get_current_week
\* ------------------------------------------------------------------------

\* The last week of the regular season.
LastWeek == 18

\* The endpoint answers weeks 0..MaxApiWeek; today is between MaxEarly days
\* before the season start and MaxDays days after it.
MaxApiWeek == 19
MaxEarly == 3
MaxDays == 135

\* A 'week' value int() cannot read.
Unparsable == -888888

\* What requests.get(...).json() gives: an exception (NoState), a state
\* without a week, or a state with a week.
ApiAnswers ==
    {NoState} \cup {[ok |-> TRUE, week |-> w] : w \in {None, Unparsable} \cup 0..MaxApiWeek}

\* The endpoint's week when it answers one that int() reads; else the week
\* counted from the season start, between 1 and LastWeek.
get_current_week(state, day) ==
    IF state.ok /\ state.week # None /\ state.week # Unparsable
    THEN state.week
    ELSE IF day < 0 THEN 1
    ELSE Min(Max((day \div 7) + 1, 1), LastWeek)

WeekInit ==
    /\ nfl_state \in ApiAnswers
    /\ today \in (0 - MaxEarly)..MaxDays
    /\ week_number = NoWeek
    /\ ScoreIdle /\ TierIdle /\ IndexIdle /\ TradeIdle /\ LoadIdle /\ PctIdle /\ RunIdle

GetCurrentWeek ==
    /\ ~week_number.called
    /\ week_number' = [called |-> TRUE, value |-> get_current_week(nfl_state, today)]
    /\ UNCHANGED <<nfl_state, today>>

WeekNext == GetCurrentWeek

SpecWeek ==
    WeekInit /\ [][WeekNext /\ UNCHANGED <<scoreVars, tierVars, indexVars, tradeVars, loadVars, pctVars, runVars>>]_vars

\* ------------------------------------------------------------------------
\* Properties of the scoring engine (SpecScore)
\* ------------------------------------------------------------------------

\* The scored player's record.
Scored == PlayerData(all_player_stats, call.sid)

\* The sum of a vector's numerators; NaN entries count as 0.
WeightSum(w) == SetNanSum(w.num, DOMAIN w.num)

\* The records of a position with three games or more, counted directly.
NumQualifying(position) ==
    Cardinality({i \in 1..Len(all_player_stats) :
                    /\ all_player_stats[i].position = position
                    /\ all_player_stats[i].games_played >= 3})

NumOfPosition(position) ==
    Cardinality({i \in 1..Len(all_player_stats) :
                    all_player_stats[i].position = position})

\* C1: for every player record, every position in {QB, RB, WR, TE} and every
\* population, calculate_nexxt_score returns, never raises, an integer
\* between 10 and 99.
C1_ScoreInRange ==
    (call.op = "score" /\ call.pos \in Positions)
        => (~call.result.raised /\ call.result.value \in 10..99)

\* C2: a player with fewer than 3 games is never scored above 90, also when
\* first among the peers on fantasy points and on every weighted metric.
C2_SmallSampleCap ==
    (call.op = "score" /\ call.sid # 0 /\ ~call.result.raised
     /\ Scored.games_played < 3)
        => call.result.value <= 90

\* C3: every entry of a WeightVector get_dynamic_weights returns is a
\* non-negative number and the entries sum to 1, on the correlation path and
\* on every fallback path.
C3_WeightsNormalised ==
    call.op = "weights"
        => /\ \A m \in DOMAIN call.weights.num :
                ~IsNaN(call.weights.num[m]) /\ call.weights.num[m] >= 0
           /\ WeightSum(call.weights) = call.weights.den

\* Weight w.num[key] / w.den is a number, 0.20 or more.
AtLeastFifth(w, key) == ~IsNaN(w.num[key]) /\ 5 * w.num[key] >= w.den

SumsToOne(w) ==
    /\ \A m \in DOMAIN w.num : ~IsNaN(w.num[m])
    /\ WeightSum(w) = w.den

\* C4: in every recomputed vector returned for RB the weight on
\* targets_per_game is 0.20 or more, in every recomputed vector returned for
\* WR or TE the weight on wopr is 0.20 or more, and the vector sums to 1.
\* (The claim says so of every returned vector; it is stated here of the
\* vectors other than the static one, which is the weaker statement.)
C4_UsageFloor ==
    /\ (call.op = "weights" /\ call.pos = "RB" /\ call.weights # Fallback("RB"))
         => (AtLeastFifth(call.weights, "targets_per_game") /\ SumsToOne(call.weights))
    /\ (call.op = "weights" /\ call.pos \in {"WR", "TE"}
                            /\ call.weights # Fallback(call.pos))
         => (AtLeastFifth(call.weights, "wopr") /\ SumsToOne(call.weights))

\* C5: with fewer than 10 records of the position having 3 games or more,
\* get_dynamic_weights returns exactly the position's static vector, whatever
\* the metric values; records with fewer than 3 games do not count.
C5_StaticBelowTen ==
    (call.op = "weights" /\ NumQualifying(call.pos) < 10)
        => call.weights = Fallback(call.pos)

\* The static vector is returned for a population of 10 or more records of
\* the position of which only 9 have 3 games.
C5_Witness ==
    /\ call.op = "weights"
    /\ NumOfPosition(call.pos) >= 10
    /\ NumQualifying(call.pos) = 9
    /\ call.weights = Fallback(call.pos)

\* The advanced field of every record is None.
AllAdvancedNull ==
    \A i \in 1..Len(all_player_stats) :
        \A m \in OptionalMetrics \cap DOMAIN all_player_stats[i] :
            all_player_stats[i][m] = None

\* C12: when every record's advanced fields are null, calculate_nexxt_score
\* still returns an integer between 10 and 99 for every player of every
\* position, also with 10 or more records of the position having 3 games.
C12_NullAdvancedScored ==
    (call.op = "score" /\ call.pos \in Positions /\ call.sid # 0 /\ AllAdvancedNull)
        => (~call.result.raised /\ call.result.value \in 10..99)

\* A record with every None read as 0.
IsNone(p, k) == k # "position" /\ p[k] = None

ZeroFillNone(p) == [k \in DOMAIN p |-> IF IsNone(p, k) THEN 0 ELSE p[k]]

\* The scored record with every None, and every metric of the position it
\* does not carry, read as 0.
ZeroFillPlayer(p, pos) ==
    IF DOMAIN p = {} \/ pos \notin Positions THEN p
    ELSE [k \in DOMAIN p \cup Range(Metrics(pos)) |->
            IF k \in DOMAIN p THEN (IF IsNone(p, k) THEN 0 ELSE p[k]) ELSE 0]

\* C18: in the ranking of a weighted metric an unknown value (None or absent)
\* counts as 0 for the scored player and for every peer, and those peers
\* stay in the ranked population: the score is the score of the same
\* population with 0 written where the value is unknown.
C18_UnknownRankedAsZero ==
    call.op = "score"
        => call.result = calculate_nexxt_score(
                             ZeroFillPlayer(Scored, call.pos), call.pos,
                             Map(all_player_stats, ZeroFillNone))

\* A player without tracking data has been scored among peers some of whom
\* have tracking data.
C18_Witness ==
    /\ call.op = "score"
    /\ call.sid # 0
    /\ ~call.result.raised
    /\ Scored.position = call.pos
    /\ \E m \in OptionalMetrics \cap DOMAIN Scored :
          /\ Scored[m] = None
          /\ \E i \in 1..Len(all_player_stats) :
                /\ all_player_stats[i].position = call.pos
                /\ all_player_stats[i][m] # None

\* C19: with no record of the requested position having a game or more,
\* calculate_nexxt_score returns exactly 50, whatever the player record and
\* the position, a position outside QB/RB/WR/TE included, and does not raise.
C19_NoPeersFifty ==
    (call.op = "score"
     /\ ~\E i \in 1..Len(all_player_stats) :
            /\ all_player_stats[i].position = call.pos
            /\ all_player_stats[i].games_played >= 1)
        => call.result = Returned(50)

\* A player with a record has been scored 50 for a position none of the
\* population's records has.
C19_Witness ==
    /\ call.op = "score"
    /\ call.sid # 0
    /\ all_player_stats # <<>>
    /\ NumOfPosition(call.pos) = 0
    /\ call.result = Returned(50)

\* The metric the floor is on.
UsageKey(position) == IF position = "RB" THEN "targets_per_game" ELSE "wopr"

\* The vector learned before the floor: the clipped correlations with fppg
\* of the metrics, over their sum.
LearnedVector(position) ==
    LET position_data == SelectSeq(all_player_stats,
                             LAMBDA p : p.position = position /\ p.games_played >= 3)
        keys == {Metrics(position)[i] : i \in 2..Len(Metrics(position))}
        corr == [m \in keys |->
                    Clip(Corr(Column(position_data, m), Column(position_data, "fppg")))]
    IN  [den |-> SetNanSum(corr, keys), num |-> corr]

\* The call took the correlation path: 10 qualifying records or more, fantasy
\* points that vary and correlations that do not sum to 0.
OnCorrelationPath(position) ==
    /\ NumQualifying(position) >= 10
    /\ call.weights # Fallback(position)
    /\ LearnedVector(position).den # 0

\* C26: on the correlation path a learned RB weight on targets_per_game (a
\* WR/TE weight on wopr) below 0.20 is returned as exactly 0.35 with the
\* other weights scaled by one factor to sum to 0.65, their mutual ratios
\* kept; a learned weight of 0.20 or more leaves the learned vector unchanged.
C26_FloorRescalesOthers ==
    (call.op = "weights" /\ call.pos \in {"RB", "WR", "TE"}
     /\ OnCorrelationPath(call.pos))
        => LET w == LearnedVector(call.pos)
               r == call.weights
               key == UsageKey(call.pos)
               others == DOMAIN w.num \ {key}
           IN  IF AtLeastFifth(w, key) THEN r = w
               ELSE /\ DOMAIN r.num = DOMAIN w.num
                    /\ 20 * r.num[key] = 7 * r.den
                    /\ \A k \in others : ~IsNaN(r.num[k])
                    /\ 20 * SetNanSum(r.num, others) = 13 * r.den
                    /\ \A k, l \in others : r.num[k] * w.num[l] = r.num[l] * w.num[k]

\* The peers of the call: the records of the position with a game or more.
CallPeers ==
    SelectSeq(all_player_stats,
              LAMBDA p : p.position = call.pos /\ p.games_played >= 1)

\* The percentile of the scored player on a metric among the peers, as a
\* numerator over 2 * Len(CallPeers): 0.5 with a single peer.
PeerPercentile(m) ==
    LET v == MetricValue(Scored, m)
        below == Cardinality({i \in 1..Len(CallPeers) : MetricValue(CallPeers[i], m) < v})
        equal == Cardinality({i \in 1..Len(CallPeers) : MetricValue(CallPeers[i], m) = v})
    IN  IF Len(CallPeers) <= 1 THEN Len(CallPeers)
        ELSE 2 * below + equal + (IF equal > 0 THEN 1 ELSE 0)

\* (fppg_percentile * 0.5 + stat_score * 0.5) * 100 * p, truncated and
\* clamped to 10..99, for the vector w the position is scored with.
FormulaScore(w) ==
    LET n == Len(CallPeers)
        weighted == [m \in DOMAIN w.num |-> PeerPercentile(m) * w.num[m]]
        stat == SetNanSum(weighted, DOMAIN w.num)
        p == IF Scored.games_played < 3 THEN 91 ELSE 100
        raw == (25 * (PeerPercentile("fppg") * w.den + stat) * p) \div (n * w.den * 100)
    IN  Max(10, Min(99, raw))

\* C25: when the position has peers, the score returned for a player record
\* is clamp(trunc((fppg_percentile * 0.5 + (sum over the WeightVector's
\* metrics of metric_percentile * weight) * 0.5) * 100 * p), 10, 99), p being
\* 0.91 with fewer than 3 games and 1 otherwise.
C25_ScoreFormula ==
    (call.op = "score" /\ call.sid # 0 /\ call.pos \in Positions /\ CallPeers # <<>>)
        => /\ ~call.result.raised
           /\ call.result.value
                = FormulaScore(get_dynamic_weights(all_player_stats, call.pos))

\* The population with every tight end counted as a wide receiver: the
\* combined WR+TE population.
CombinedReceivers(stats) ==
    [i \in 1..Len(stats) |->
        IF stats[i].position = "TE" THEN [stats[i] EXCEPT !.position = "WR"]
        ELSE stats[i]]

\* C22: wide receivers and tight ends are one position group: the
\* WeightVector get_dynamic_weights returns for 'WR' or for 'TE' is the one
\* vector learned from the combined WR+TE population.
C22_OneVectorForReceivers ==
    (call.op = "weights" /\ call.pos \in {"WR", "TE"})
        => call.weights = get_dynamic_weights(CombinedReceivers(all_player_stats), "WR")

\* ------------------------------------------------------------------------
\* Properties of the percentile rank (SpecPct)

NumPeers == Len(peer_vals)
Below(v) == Cardinality({i \in 1..NumPeers : peer_vals[i] < v})
Equal(v) == Cardinality({i \in 1..NumPeers : peer_vals[i] = v})
AtMost(v) == Cardinality({i \in 1..NumPeers : peer_vals[i] <= v})

\* C16 as stated: the percentile rank of v is the fraction of the peers
\* whose value is less than or equal to v, also when several peers tie with
\* v, and 0.5 with fewer than 2 peers.  (ranked[v] is over 2 * NumPeers.)
C16_FractionAtMost ==
    \A v \in DOMAIN ranked :
        IF NumPeers < 2 THEN ranked[v] = NumPeers
        ELSE ranked[v] = 2 * AtMost(v)

\* C16, amended: the percentile rank of v is the mean rank of the peers
\* equal to v, over the number of peers: (below + (equal + 1) / 2) / n when a
\* peer equals v and below / n when none does.  It lies in [0, 1], it is the
\* fraction of the peers at or below v when at most one peer equals v, and
\* it is 0.5 with fewer than 2 peers.
C16_MeanRank ==
    \A v \in DOMAIN ranked :
        IF NumPeers < 2 THEN ranked[v] = NumPeers
        ELSE /\ Equal(v) = 0 => ranked[v] = 2 * Below(v)
             /\ Equal(v) > 0 => ranked[v] = 2 * Below(v) + Equal(v) + 1
             /\ Equal(v) <= 1 => ranked[v] = 2 * AtMost(v)
             /\ 0 <= ranked[v] /\ ranked[v] <= 2 * NumPeers

\* A value two or more peers tie on, above another peer, has been ranked.
C16_Witness ==
    \E v \in DOMAIN ranked : NumPeers >= 2 /\ Equal(v) >= 2 /\ Below(v) >= 1

\* C17: for two players A and B of the same population, A's fantasy points
\* per game greater than B's, A's percentile is greater than or equal to
\* B's.
C17_Monotonic ==
    \A a \in DOMAIN ranked, b \in DOMAIN ranked :
        a > b => ranked[a] >= ranked[b]

\* Two peers of different value have both been ranked.
C17_Witness ==
    \E a \in DOMAIN ranked, b \in DOMAIN ranked :
        /\ a > b
        /\ Equal(a) >= 1 /\ Equal(b) >= 1
        /\ ranked[a] > ranked[b]

\* ------------------------------------------------------------------------
\* Properties of the loader (SpecLoad)

\* The season asked for, and what the provider holds for it.
Requested == loaded.season
SomeTrackingFails(s) ==
    \/ ~upstream.ngs[s].passing.ok
    \/ ~upstream.ngs[s].rushing.ok
    \/ ~upstream.ngs[s].receiving.ok
FeedLoads(s) == upstream.pbp[s].ok /\ upstream.pbp[s].rows # <<>>

\* C13: when the load of a tracking table of the requested season fails
\* while the season's feed loads and has plays, the run is not aborted and
\* does not change season: what is returned is built from the requested
\* season's plays.
C13_TrackingFailureKeepsSeason ==
    (loaded.called /\ FeedLoads(Requested) /\ upstream.ids.ok
     /\ SomeTrackingFails(Requested))
        => /\ loaded.value.actual_season = Requested
           /\ loaded.value.pbp = upstream.pbp[Requested].rows

\* Fallback data was loaded: every load of the fallback season succeeded.
FallbackLoaded == LoadsOf(upstream, FALLBACK_SEASON)

\* The label the claim gives the case of a current feed that is empty or
\* fails: the fallback season with fallback data, None with nothing.
FallbackLabel == IF FallbackLoaded THEN FALLBACK_SEASON ELSE None

\* C14: when the current season's feed is empty or fails to load, the season
\* label load_nfl_data and get_predictive_index return is never the current
\* season: it is the fallback season when fallback data was loaded and None
\* when nothing was loaded.
C14_UnavailableSeasonLabel ==
    (loaded.called /\ Requested = CURRENT_SEASON /\ ~FeedLoads(CURRENT_SEASON))
        => /\ loaded.value.actual_season = FallbackLabel
           /\ index.called => index.value.actual_season = FallbackLabel

\* The advanced field of a record, and the tracking table and column it
\* is read from.
AdvancedField(rec) ==
    CASE rec.position = "QB" -> "cpoe"
      [] rec.position = "RB" -> "ryoe"
      [] OTHER               -> "avg_cushion"
TrackingTable(rec) ==
    CASE rec.position = "QB" -> loaded.value.ngs_pass
      [] rec.position = "RB" -> loaded.value.ngs_rush
      [] OTHER               -> loaded.value.ngs_rec
TrackingColumn(rec) ==
    CASE rec.position = "QB" -> "completion_percentage_above_expectation"
      [] rec.position = "RB" -> "rush_yards_over_expected_per_att"
      [] OTHER               -> "avg_cushion"

\* The gsis ids the loaded master list gives a sleeper id.
GsisIds(sid) ==
    {loaded.value.ids[j].gsis_id : j \in {k \in 1..Len(loaded.value.ids) :
                                            loaded.value.ids[k].sleeper_id = sid}}

\* The table has a row of the player with the metric.
HasTrackingRow(sid, table, column) ==
    \E i \in 1..Len(table) :
        /\ "player_gsis_id" \in DOMAIN table[i]
        /\ column \in DOMAIN table[i]
        /\ table[i].player_gsis_id \in GsisIds(sid)

\* The player has a play in the window.
HasPlay(sid) ==
    \E i \in 1..Len(loaded.value.pbp) :
        LET p == loaded.value.pbp[i]
        IN  /\ p.week < index.cutoff
            /\ {p.passer_player_id, p.rusher_player_id, p.receiver_player_id}
                   \cap GsisIds(sid) # {}

\* The sleeper ids with a row in a tracking table.
Tracked ==
    {loaded.value.ids[j].sleeper_id : j \in 1..Len(loaded.value.ids)} \cap
    {sid \in {"1", "2", "3", "9", "nan"} :
        \/ HasTrackingRow(sid, loaded.value.ngs_pass,
                          "completion_percentage_above_expectation")
        \/ HasTrackingRow(sid, loaded.value.ngs_rush, "rush_yards_over_expected_per_att")
        \/ HasTrackingRow(sid, loaded.value.ngs_rec, "avg_cushion")}

\* C15: a player without a tracking row for a metric, or whose tracking table
\* is empty or lacks the metric column, has the advanced field (cpoe, ryoe,
\* avg_cushion) recorded as None, never as 0; a player with tracking data and
\* no play gets no record at all.
C15_UnknownIsNone ==
    (index.called /\ index.value.actual_season # None) =>
        /\ \A sid \in DOMAIN index.value.stats :
              LET rec == index.value.stats[sid]
              IN  ~HasTrackingRow(sid, TrackingTable(rec), TrackingColumn(rec))
                      => rec[AdvancedField(rec)] = None
        /\ \A sid \in Tracked : ~HasPlay(sid) => sid \notin DOMAIN index.value.stats

\* One record carries a tracked metric, another has None for a metric whose
\* table lacks the column, and a tracked player without a play has no record.
C15_Witness ==
    /\ index.called
    /\ \E a \in DOMAIN index.value.stats, b \in DOMAIN index.value.stats :
          /\ index.value.stats[a][AdvancedField(index.value.stats[a])] # None
          /\ index.value.stats[b][AdvancedField(index.value.stats[b])] = None
          /\ TrackingTable(index.value.stats[b]) # <<>>
    /\ \E sid \in Tracked : sid \notin DOMAIN index.value.stats

\* C20: every identity row whose gsis id or sleeper id is null or reads
\* 'nan' or 'None' as a string is dropped before the joins, so that no record
\* is keyed by such an identifier.
C20_NullIdsDropped ==
    (loaded.called /\ loaded.value.actual_season # None) =>
        /\ \A j \in 1..Len(loaded.value.ids) :
              /\ loaded.value.ids[j].gsis_id \notin {"nan", "None"}
              /\ loaded.value.ids[j].sleeper_id \notin {"nan", "None"}
        /\ index.called =>
              \A sid \in DOMAIN index.value.stats : sid \notin {"nan", "None"}

\* Every load of a season's try block answers without an exception.
AllLoad(s) ==
    /\ upstream.pbp[s].ok
    /\ upstream.ngs[s].passing.ok
    /\ upstream.ngs[s].rushing.ok
    /\ upstream.ngs[s].receiving.ok
    /\ upstream.ids.ok

\* C27: load_nfl_data never raises; whatever the outcomes of the loads of
\* the two seasons, the fallback season is loaded at most once and only
\* when the requested season is the current one and its loads failed or gave
\* an empty play feed; the result is the all-None tuple or a complete tuple
\* labelled with the season its tables were loaded for.
C27_LoadOutcomes ==
    loaded.called =>
        LET tried == loaded.tried
            v == loaded.value
            label == v.actual_season
        IN  /\ Len(tried) \in {1, 2}
            /\ tried[1] = Requested
            /\ Len(tried) = 2 =>
                  /\ tried[2] = FALLBACK_SEASON
                  /\ Requested = CURRENT_SEASON
                  /\ ~AllLoad(CURRENT_SEASON) \/ upstream.pbp[CURRENT_SEASON].rows = <<>>
            /\ IF label = None THEN v = NothingLoaded
               ELSE /\ label = tried[Len(tried)]
                    /\ AllLoad(label)
                    /\ v.pbp = upstream.pbp[label].rows
                    /\ v.ngs_pass = upstream.ngs[label].passing.rows
                    /\ v.ngs_rush = upstream.ngs[label].rushing.rows
                    /\ v.ngs_rec = upstream.ngs[label].receiving.rows

\* The current season was asked for, its feed came empty, and the fallback
\* season's tables were returned under the fallback label.
C27_Witness ==
    /\ loaded.called
    /\ Requested = CURRENT_SEASON
    /\ AllLoad(CURRENT_SEASON)
    /\ upstream.pbp[CURRENT_SEASON].rows = <<>>
    /\ loaded.tried = <<CURRENT_SEASON, FALLBACK_SEASON>>
    /\ loaded.value.actual_season = FALLBACK_SEASON
    /\ loaded.value.pbp # <<>>

\* C28: a play feed load_nfl_data returns, on the primary path and on the
\* fallback path alike, is not empty.
C28_ReturnedFeedNotEmpty ==
    (loaded.called /\ loaded.value.actual_season # None)
        => loaded.value.pbp # <<>>

\* ------------------------------------------------------------------------
\* Properties of the cached index (SpecCache)

\* C6: the stored result is never reused across a change of the cutoff week:
\* every call returns the records computed from the plays of the weeks before
\* the week that is current at the call.
C6_FreshAfterWeekChange ==
    index.called => index.value = get_predictive_index(pbp, index.cutoff)

\* C23: two runs of the pipeline on the same input tables with the same
\* season and the same cutoff week return the same PlayerStatRecords (and so
\* the same scores): the output depends on the inputs, the season and the
\* cutoff week only.
C23_SameInputsSameRecords ==
    \A r1, r2 \in runs : r1.cutoff = r2.cutoff => r1.value = r2.value

\* ------------------------------------------------------------------------
\* Properties of the aggregation (SpecIndex)

\* The plays of the feed of the weeks before the cutoff, selected directly.
BeforeCutoff == SelectSeq(pbp, LAMBDA p : p.week < index.cutoff)

\* The plays of the feed of the cutoff week and later.
FromCutoff == SelectSeq(pbp, LAMBDA p : p.week >= index.cutoff)

\* C7: only the plays of the weeks strictly before the current week
\* contribute to what get_predictive_index returns: the result on the feed
\* is the result on the feed without the plays of the current and later weeks.
C7_OnlyCompletedWeeks ==
    index.called => index.value = get_predictive_index(BeforeCutoff, index.cutoff)

\* A result with records, computed from a feed that also holds plays of the
\* current or a later week.
C7_Witness ==
    /\ index.called
    /\ FromCutoff # <<>>
    /\ BeforeCutoff # <<>>
    /\ DOMAIN index.value.stats # {}

\* The gsis id of a sleeper id of the master list.
GsisOf(sid) == Ids[CHOOSE i \in 1..Len(Ids) : Ids[i].sleeper_id = sid].gsis_id

\* The plays before the cutoff of each role of a player.
AsPasser(gsis) == SelectSeq(BeforeCutoff,
    LAMBDA p : p.play_type = "pass" /\ p.passer_player_id = gsis)
AsRusher(gsis) == SelectSeq(BeforeCutoff,
    LAMBDA p : p.play_type = "run" /\ p.rusher_player_id = gsis)
AsReceiver(gsis) == SelectSeq(BeforeCutoff,
    LAMBDA p : p.play_type = "pass" /\ p.receiver_player_id = gsis)

\* The largest number of distinct games of a role of the player.
MaxRoleGames(gsis) ==
    Max(NUnique(AsPasser(gsis)), Max(NUnique(AsRusher(gsis)), NUnique(AsReceiver(gsis))))

\* C8: the games_played of a player with plays in more than one role is the
\* largest, over the player's roles, of the number of distinct games of the
\* role, whichever roles they are and whichever has more games.
C8_GamesPlayedIsMax ==
    index.called =>
        \A sid \in DOMAIN index.value.stats :
            index.value.stats[sid].games_played = MaxRoleGames(GsisOf(sid))

\* The fantasy points of the player over all roles, in hundredths.
TotalPoints(gsis) ==
    (SumOf(AsPasser(gsis), "passing_yards") * 4
       + SumOf(AsPasser(gsis), "pass_touchdown") * 400
       - SumOf(AsPasser(gsis), "interception") * 200)
    + (SumOf(AsRusher(gsis), "rushing_yards") * 10
       + SumOf(AsRusher(gsis), "rush_touchdown") * 600
       - SumOf(AsRusher(gsis), "fumble_lost") * 200)
    + (SumOf(AsReceiver(gsis), "receiving_yards") * 10
       + SumOf(AsReceiver(gsis), "pass_touchdown") * 600
       + SumOf(AsReceiver(gsis), "complete_pass") * 100
       - SumOf(AsReceiver(gsis), "fumble_lost") * 200)

\* C9: a player's fantasy points per game are the points of all the roles
\* together divided by max(games_played, 1), games_played being the final
\* one, also when the roles have different numbers of games.  (fppg is in
\* units of 1 / (100 * GameDen).)
C9_PointsPerGame ==
    index.called =>
        \A sid \in DOMAIN index.value.stats :
            index.value.stats[sid].fppg * Max(index.value.stats[sid].games_played, 1)
                = TotalPoints(GsisOf(sid)) * GameDen

\* A role's points per game of the role, in units of 1 / (100 * GameDen):
\* 0 without a play of the role.
PerRoleGame(points, rows) ==
    IF rows = <<>> THEN 0 ELSE (points * GameDen) \div NUnique(rows)

\* passing_yards * 0.04 + pass_touchdowns * 4 - interceptions * 2 over the
\* player's pass plays before the cutoff, missing values as 0, in hundredths.
PassingPoints(gsis) ==
    SumSeq([i \in 1..Len(AsPasser(gsis)) |->
        LET p == AsPasser(gsis)[i]
        IN  (IF p.passing_yards = None THEN 0 ELSE p.passing_yards * 4)
            + p.pass_touchdown * 400 - p.interception * 200])

RushingPoints(gsis) ==
    SumOf(AsRusher(gsis), "rushing_yards") * 10
    + SumOf(AsRusher(gsis), "rush_touchdown") * 600
    - SumOf(AsRusher(gsis), "fumble_lost") * 200

ReceivingPoints(gsis) ==
    SumOf(AsReceiver(gsis), "receiving_yards") * 10
    + SumOf(AsReceiver(gsis), "pass_touchdown") * 600
    + SumOf(AsReceiver(gsis), "complete_pass") * 100
    - SumOf(AsReceiver(gsis), "fumble_lost") * 200

\* C24: the fantasy points a passer's fantasy_points_per_game is built from
\* are passing_yards * 0.04 + pass_touchdowns * 4 - interceptions * 2 summed
\* over the passer's pass plays in the window, missing values counted as 0:
\* they enter fppg divided by the passer's games, next to the points of the
\* player's runs and targets.
C24_PassingPoints ==
    index.called =>
        \A sid \in DOMAIN index.value.stats :
            AsPasser(GsisOf(sid)) # <<>> =>
                index.value.stats[sid].fppg
                    = PerRoleGame(PassingPoints(GsisOf(sid)), AsPasser(GsisOf(sid)))
                      + PerRoleGame(RushingPoints(GsisOf(sid)), AsRusher(GsisOf(sid)))
                      + PerRoleGame(ReceivingPoints(GsisOf(sid)), AsReceiver(GsisOf(sid)))

\* A passer who only passes, with a completion, a touchdown pass and an
\* interception (whose passing_yards is missing) in one game: 30 yards, one
\* touchdown and one interception are 3.2 points per game.
C24_Witness ==
    /\ index.called
    /\ \E sid \in DOMAIN index.value.stats :
          LET passes == AsPasser(GsisOf(sid))
          IN  /\ AsRusher(GsisOf(sid)) = <<>>
              /\ AsReceiver(GsisOf(sid)) = <<>>
              /\ NUnique(passes) = 1
              /\ SumOf(passes, "passing_yards") = 30
              /\ SumOf(passes, "pass_touchdown") = 1
              /\ SumOf(passes, "interception") = 1
              /\ \E i \in 1..Len(passes) : passes[i].passing_yards = None
              /\ index.value.stats[sid].fppg = 320 * GameDen

\* The position of a sleeper id in the master list.
MasterPosition(sid) ==
    Ids[CHOOSE i \in 1..Len(Ids) : Ids[i].sleeper_id = sid].position

\* C29: every record tagged 'QB' belongs to a player whose master-list
\* position is QB: a non-QB who attempted a pass is not tagged 'QB', so the
\* QB peer population holds quarterbacks only.
C29_QBTagOnlyForQuarterbacks ==
    index.called =>
        \A sid \in DOMAIN index.value.stats :
            index.value.stats[sid].position = "QB" => MasterPosition(sid) = "QB"

\* The mean of epa over the plays before the cutoff with `team` on offence,
\* as <<sum, count>>, and whether there is such a play.
OffenceEpa(team) ==
    LET rows == SelectSeq(BeforeCutoff, LAMBDA p : p.posteam = team)
    IN  <<SumOf(rows, "epa"), Len(rows)>>
HasOffence(team) == \E i \in 1..Len(BeforeCutoff) : BeforeCutoff[i].posteam = team

\* The mean of epa over all the plays before the cutoff.
LeagueEpa == <<SumOf(BeforeCutoff, "epa"), Len(BeforeCutoff)>>

\* Two means <<sum, count>> are the same number.
SameMean(a, b) == a[1] * b[2] = b[1] * a[2]

\* The team of a sleeper id in the master list.
MasterTeam(sid) == Ids[CHOOSE i \in 1..Len(Ids) : Ids[i].sleeper_id = sid].team

\* The EPA of the team, else of its TEAM_MAP alias, else `otherwise`.
ExpectedTeamEpa(team, otherwise) ==
    IF HasOffence(team) THEN OffenceEpa(team)
    ELSE IF HasOffence(TeamMapGet(team)) THEN OffenceEpa(TeamMapGet(team))
    ELSE otherwise

\* C21 as stated: the team_epa of a record is the offensive EPA of the
\* player's team abbreviation if the window has it, else that of its TEAM_MAP
\* alias if the window has it, else the league-average offensive EPA.
C21_LeagueAverageDefault ==
    index.called =>
        \A sid \in DOMAIN index.value.stats :
            SameMean(index.value.stats[sid].team_epa,
                     ExpectedTeamEpa(MasterTeam(sid), LeagueEpa))

\* C21, amended: the team_epa of a record is the offensive EPA of the
\* player's team abbreviation if the window has it, else that of its TEAM_MAP
\* alias if the window has it, else 0; the lookup never raises.
C21_ZeroDefault ==
    index.called =>
        \A sid \in DOMAIN index.value.stats :
            SameMean(index.value.stats[sid].team_epa,
                     ExpectedTeamEpa(MasterTeam(sid), <<0, 1>>))

\* Records of a player whose team is found directly, of one whose team is
\* found under its alias only and of one whose team is not found at all, in
\* a window whose teams' and league's EPA are not 0.
C21_Witness ==
    /\ index.called
    /\ LeagueEpa[1] # 0
    /\ \E a, b, c \in DOMAIN index.value.stats :
          /\ HasOffence(MasterTeam(a)) /\ OffenceEpa(MasterTeam(a))[1] # 0
          /\ ~HasOffence(MasterTeam(b)) /\ HasOffence(TeamMapGet(MasterTeam(b)))
          /\ ~HasOffence(MasterTeam(c)) /\ ~HasOffence(TeamMapGet(MasterTeam(c)))

\* ------------------------------------------------------------------------
\* Properties of the trade audit (SpecTrade)

\* The sum over a side's players of score x multiplier, in tenths, the
\* multiplier being the one of the player's tier.
RECURSIVE ScoreTimesMultiplier(_)
ScoreTimesMultiplier(details) ==
    IF details = <<>> THEN 0
    ELSE LET s == Head(details)
             multiplier == IF s >= 90 THEN 13 ELSE IF s >= 80 THEN 10
                           ELSE IF s >= 70 THEN 8 ELSE IF s >= 60 THEN 4 ELSE 2
         IN  s * multiplier + ScoreTimesMultiplier(Tail(details))

\* C11: in the trade audit the adjusted value of each side is the sum over
\* the side's players of score x tier multiplier, and the adjusted value
\* difference is the get side's sum minus the give side's.
C11_AdjustedIsScoreTimesMultiplier ==
    audit.called =>
        /\ audit.give_adjusted = ScoreTimesMultiplier(give_details)
        /\ audit.get_adjusted = ScoreTimesMultiplier(get_details)
        /\ audit.value_diff = audit.get_adjusted - audit.give_adjusted

\* ------------------------------------------------------------------------
\* Properties of the tiers (SpecTier)

\* C10: apply_replacement_level gives (1.3, Elite) iff s >= 90, (1.0, High
\* Starter) iff 80 <= s < 90, (0.8, Low Starter) iff 70 <= s < 80, (0.4,
\* High Scrub) iff 60 <= s < 70 and (0.2, Scrub) iff s < 60, the values 90,
\* 80, 70 and 60 belonging to the higher tier.
C10_TierSteps ==
    tier.called =>
        LET s == nexxt_score
            r == <<tier.multiplier, tier.label>>
        IN  /\ r = <<13, "Elite (1.3x)">> <=> s >= 90 * ScoreUnit
            /\ r = <<10, "High Starter (1.0x)">>
                   <=> (80 * ScoreUnit <= s /\ s < 90 * ScoreUnit)
            /\ r = <<8, "Low Starter (0.8x)">>
                   <=> (70 * ScoreUnit <= s /\ s < 80 * ScoreUnit)
            /\ r = <<4, "High Scrub (0.4x)">>
                   <=> (60 * ScoreUnit <= s /\ s < 70 * ScoreUnit)
            /\ r = <<2, "Scrub (0.2x)">> <=> s < 60 * ScoreUnit

\* The score 90 exactly has been given the Elite tier.
C10_Witness ==
    /\ tier.called
    /\ nexxt_score = 90 * ScoreUnit
    /\ tier.multiplier = 13
    /\ tier.label = "Elite (1.3x)"

\* ------------------------------------------------------------------------
\* Properties of the week (SpecWeek)

\* C30: get_current_week returns an integer in 1..18 on every path: when
\* the endpoint answers with a week, when it answers without one and when
\* it fails and the week is counted from the date.
C30_WeekInRange ==
    week_number.called => week_number.value \in 1..18

====
